---------------------------- MODULE Spec2Model ----------------------------
(***************************************************************************)
(* Admin dashboard of an e-commerce platform.                              *)
(*                                                                         *)
(*  - Product repository (services/apiProducts): createProduct,            *)
(*    updateProduct, deleteProduct.  Every `await` on the backend is one   *)
(*    step of a call: the backend answers the pending request (success or  *)
(*    error) and the call runs on to its next request, its return or its   *)
(*    throw.                                                               *)
(*  - Analytics component (EcommerceAnalytics): fetchAnalyticsData, four   *)
(*    reads joined by Promise.all, then the in-memory derivation.          *)
(***************************************************************************)
EXTENDS Integers, Sequences, FiniteSets, TLC

VARIABLES
    products,            \* table "products": id -> Some(row), or None
    product_attributes,  \* table "product_attributes": rows in insertion order
    storage,             \* bucket "product-images": the object keys it holds
    console,             \* console.error lines, in order: [call, msg]
    call,                \* each repository call: arguments, locals, position
    now,                 \* wall clock of the analytics run, local calendar date
    utcDayShift,         \* UTC calendar day minus local calendar day at `now`
    backend,             \* what the four analytics reads answer on success
    reads,               \* the four promises given to Promise.all
    pcA,                 \* position of fetchAnalyticsData
    analyticsData,       \* useState: AnalyticsData
    isLoading,           \* useState: isLoading
    consoleA             \* console.error lines of the analytics component

repoVars == <<products, product_attributes, storage, console, call>>
analyticsVars == <<now, utcDayShift, backend, reads, pcA, analyticsData,
                   isLoading, consoleA>>
vars == <<products, product_attributes, storage, console, call, now,
          utcDayShift, backend, reads, pcA, analyticsData, isLoading, consoleA>>

\* An optional value (undefined, null, no row): None or Some(x).
None == <<>>
Some(x) == <<x>>
Get(opt) == opt[1]

-----------------------------------------------------------------------------
(* Bounds *)

\* Longest image_url list of the stored product.
MaxImages == 3
\* Longest attribute list passed to createProduct / updateProduct.
MaxAttrs == 2
\* Longest fetched order page when the top products are derived.
MaxOrders == 3
\* Longest fetched order page when the date ranges over the calendar.
MaxMonthOrders == 2

-----------------------------------------------------------------------------
(* Values *)

Calls == {"c1", "c2"}
ProductIds == {"p1", "p2"}

\* ProductAttribute as supplied by a caller (no id, no product_id).
AttrPool == { [attribute_name |-> "size", attribute_value |-> "L"],
              [attribute_name |-> "color", attribute_value |-> "red"] }

\* An image URL string.  wellFormed = FALSE is a string `new URL` rejects
\* (for instance a bare file name); pathname is the path split at "/".
\* Object keys are made of characters the URL parser leaves as they are.
PublicPrefix == <<"storage", "v1", "object", "public", "product-images">>
UrlOf(key) == [wellFormed |-> TRUE, pathname |-> PublicPrefix \o key]
KeyA == <<"products", "a.png">>
KeyB == <<"products", "b.png">>
KeyC == <<"products", "c.png">>
ForeignUrl == [wellFormed |-> TRUE, pathname |-> <<"cdn", "x.png">>]
MalformedUrl == [wellFormed |-> FALSE, pathname |-> <<>>]
UrlPool == {UrlOf(KeyA), UrlOf(KeyB), UrlOf(KeyC), ForeignUrl, MalformedUrl}

SeqsUpTo(S, n) == UNION { [1..k -> S] : k \in 0..n }

AttrLists == SeqsUpTo(AttrPool, MaxAttrs)
ImageLists == SeqsUpTo(UrlPool, MaxImages)

\* The attribute rows stored for p1 before any call.
StoredAttrs == <<[product_id |-> "p1", attribute_name |-> "size",
                  attribute_value |-> "M"]>>
\* An object of the bucket that belongs to no product.
KeyOther == <<"banners", "z.png">>

-----------------------------------------------------------------------------
(* Analytics: calendar *)

\* A Date, as its local calendar fields: getFullYear, getMonth (0..11),
\* getDate.
IsLeap(y) == (y % 4 = 0 /\ y % 100 # 0) \/ y % 400 = 0
DaysInMonth(y, m) ==
    IF m = 1 THEN (IF IsLeap(y) THEN 29 ELSE 28)
    ELSE IF m \in {3, 5, 8, 10} THEN 30 ELSE 31
IsDate(date) == date.d <= DaysInMonth(date.y, date.m)

\* date.setMonth(month) for month in -11..11: the month is brought into the
\* year before when negative, and a day of the month past the end of the new
\* month runs on into the month after it.
SetMonth(date, month) ==
    LET y == IF month < 0 THEN date.y - 1 ELSE date.y
        m == IF month < 0 THEN month + 12 ELSE month
    IN  IF date.d <= DaysInMonth(y, m) THEN [y |-> y, m |-> m, d |-> date.d]
        ELSE [y |-> y, m |-> m + 1, d |-> date.d - DaysInMonth(y, m)]

\* The calendar date `shift` days (-1, 0 or 1) from date: the UTC date of an
\* instant whose local date is `date`.
PlusDays(date, shift) ==
    IF shift = 1 /\ date.d = DaysInMonth(date.y, date.m)
    THEN (IF date.m = 11 THEN [y |-> date.y + 1, m |-> 0, d |-> 1]
          ELSE [y |-> date.y, m |-> date.m + 1, d |-> 1])
    ELSE IF shift = -1 /\ date.d = 1
    THEN (IF date.m = 0 THEN [y |-> date.y - 1, m |-> 11, d |-> 31]
          ELSE [y |-> date.y, m |-> date.m - 1,
                d |-> DaysInMonth(date.y, date.m - 1)])
    ELSE [y |-> date.y, m |-> date.m, d |-> date.d + shift]

\* date.toISOString().slice(0, 7): "YYYY-MM" of the UTC date, as year and
\* month number 1..12.
MonthKey(date, shift) ==
    LET utc == PlusDays(date, shift) IN [y |-> utc.y, m |-> utc.m + 1]

\* date.toLocaleDateString("ar-EG", {month: "short", year: "numeric"}): the
\* month and the year of the local date.
MonthLabel(date) == [y |-> date.y, m |-> date.m + 1]

-----------------------------------------------------------------------------
(* Analytics: derivation *)

\* A quotient num / den of two integers, kept exact.
Ratio(num, den) == [num |-> num, den |-> den]

\* orders.reduce((sum, order) => sum + order.total_price, 0)
RECURSIVE SumTotals(_)
SumTotals(orders) ==
    IF orders = <<>> THEN 0
    ELSE Head(orders).total_price + SumTotals(Tail(orders))

\* orders.length > 0 ? totalRevenue / orders.length : 0
AverageOrderValue(orders) ==
    IF Len(orders) > 0 THEN Ratio(SumTotals(orders), Len(orders))
    ELSE Ratio(0, 1)

\* userStats.total > 0 ? (orders.length / userStats.total) * 100 : 0
ConversionRate(orders, userTotal) ==
    IF userTotal > 0 THEN Ratio(Len(orders) * 100, userTotal)
    ELSE Ratio(0, 1)

\* order.created_at?.startsWith(monthKey): created_at holds the "YYYY-MM"
\* its text begins with, or is absent.
InMonth(order, monthKey) ==
    order.created_at # None /\ Get(order.created_at) = monthKey

\* The callback of Array.from({ length: 6 }, (_, i) => ...): the bucket of
\* the date i months back from today.
MonthBucket(orders, today, shift, i) ==
    LET date == SetMonth(today, today.m - i)
        monthKey == MonthKey(date, shift)
        monthOrders == SelectSeq(orders, LAMBDA o : InMonth(o, monthKey))
    IN  [month |-> MonthLabel(date),
         revenue |-> SumTotals(monthOrders),
         orders |-> Len(monthOrders)]

Reverse(seq) == [k \in 1..Len(seq) |-> seq[Len(seq) + 1 - k]]

\* Array.from({ length: 6 }, ...).reverse()
MonthCount == 6
SalesByMonth(orders, today, shift) ==
    Reverse([k \in 1..MonthCount |-> MonthBucket(orders, today, shift, k - 1)])

\* item.products?.name_ar || item.products?.name_en || "Unknown Product":
\* a name that is missing or empty is falsy.
ProductName(item) ==
    IF item.products # None /\ Get(item.products).name_ar # ""
    THEN Get(item.products).name_ar
    ELSE IF item.products # None /\ Get(item.products).name_en # ""
    THEN Get(item.products).name_en
    ELSE "Unknown Product"

\* All order items in the order the two forEach visit them
\* (order.order_items?.forEach: an absent list contributes nothing).
RECURSIVE AllItems(_)
AllItems(orders) ==
    IF orders = <<>> THEN <<>>
    ELSE (IF Head(orders).order_items = None THEN <<>>
          ELSE Get(Head(orders).order_items)) \o AllItems(Tail(orders))

\* As Accumulate, but a later item of a product replaces the entry instead
\* of adding to it.
Accumulate_Overwrites(productSales, item) ==
    LET productName == ProductName(item)
        entry == [name |-> productName,
                  sales |-> item.price * item.quantity,
                  quantity |-> item.quantity]
    IN  IF \E k \in 1..Len(productSales) : productSales[k].name = productName
        THEN [k \in 1..Len(productSales) |->
                IF productSales[k].name = productName THEN entry
                ELSE productSales[k]]
        ELSE Append(productSales, entry)

\* One visit of the inner forEach on the Map productSales, kept as its
\* entries in insertion order.
Accumulate(productSales, item) ==
    LET productName == ProductName(item)
    IN  IF \E k \in 1..Len(productSales) : productSales[k].name = productName
        THEN [k \in 1..Len(productSales) |->
                IF productSales[k].name = productName
                THEN [name |-> productName,
                      sales |-> productSales[k].sales
                                  + item.price * item.quantity,
                      quantity |-> productSales[k].quantity + item.quantity]
                ELSE productSales[k]]
        ELSE Append(productSales,
                    [name |-> productName,
                     sales |-> item.price * item.quantity,
                     quantity |-> item.quantity])

RECURSIVE ProductSales(_, _)
ProductSales(productSales, items) ==
    IF items = <<>> THEN productSales
    ELSE ProductSales(Accumulate(productSales, Head(items)), Tail(items))

\* entries.sort((a, b) => b.sales - a.sales): a stable sort, larger sales
\* first.  Insert puts an entry after every entry that does not sell less.
RECURSIVE Insert(_, _)
Insert(sorted, entry) ==
    IF sorted = <<>> THEN <<entry>>
    ELSE IF Head(sorted).sales >= entry.sales
         THEN <<Head(sorted)>> \o Insert(Tail(sorted), entry)
         ELSE <<entry>> \o sorted
RECURSIVE SortBySales(_)
SortBySales(entries) ==
    IF entries = <<>> THEN <<>>
    ELSE Insert(SortBySales(SubSeq(entries, 1, Len(entries) - 1)),
                entries[Len(entries)])

\* .slice(0, 5)
TopCount == 5
TopProducts(orders) ==
    LET sorted == SortBySales(ProductSales(<<>>, AllItems(orders)))
    IN  SubSeq(sorted, 1, IF Len(sorted) < TopCount THEN Len(sorted)
                          ELSE TopCount)

\* As Summary, but the average divides by the aggregate order count
\* (orderStats.total) instead of the length of the fetched page.
Summary_AvgByStat(orderStats, orders, productsTotal, userStats, today, shift) ==
    [totalRevenue |-> SumTotals(orders),
     totalOrders |-> orderStats,
     totalCustomers |-> userStats,
     totalProducts |-> productsTotal,
     averageOrderValue |-> IF orderStats > 0
                           THEN Ratio(SumTotals(orders), orderStats)
                           ELSE Ratio(0, 1),
     conversionRate |-> ConversionRate(orders, userStats),
     topProducts |-> TopProducts(orders),
     salesByMonth |-> SalesByMonth(orders, today, shift)]

\* As Summary, but the conversion rate counts the aggregate order count
\* (orderStats.total) instead of the length of the fetched page.
Summary_RateByStat(orderStats, orders, productsTotal, userStats, today, shift) ==
    [totalRevenue |-> SumTotals(orders),
     totalOrders |-> orderStats,
     totalCustomers |-> userStats,
     totalProducts |-> productsTotal,
     averageOrderValue |-> AverageOrderValue(orders),
     conversionRate |-> IF userStats > 0
                        THEN Ratio(orderStats * 100, userStats)
                        ELSE Ratio(0, 1),
     topProducts |-> TopProducts(orders),
     salesByMonth |-> SalesByMonth(orders, today, shift)]

\* The object given to setAnalyticsData.
Summary(orderStats, orders, productsTotal, userStats, today, shift) ==
    [totalRevenue |-> SumTotals(orders),
     totalOrders |-> orderStats,
     totalCustomers |-> userStats,
     totalProducts |-> productsTotal,
     averageOrderValue |-> AverageOrderValue(orders),
     conversionRate |-> ConversionRate(orders, userStats),
     topProducts |-> TopProducts(orders),
     salesByMonth |-> SalesByMonth(orders, today, shift)]

\* useState's initial AnalyticsData.
DefaultData ==
    [totalRevenue |-> 0, totalOrders |-> 0, totalCustomers |-> 0,
     totalProducts |-> 0, averageOrderValue |-> Ratio(0, 1),
     conversionRate |-> Ratio(0, 1), topProducts |-> <<>>,
     salesByMonth |-> <<>>]

-----------------------------------------------------------------------------
(* Product repository: helpers *)

\* attributes.map((attr) => ({ ...attr, product_id }))
WithProductId(attributes, id) ==
    [k \in 1..Len(attributes) |->
        [product_id |-> id,
         attribute_name |-> attributes[k].attribute_name,
         attribute_value |-> attributes[k].attribute_value]]

\* .eq("product_id", id) on the attribute table.
AttrsOf(table, id) == SelectSeq(table, LAMBDA r : r.product_id = id)
AttrsNotOf(table, id) == SelectSeq(table, LAMBDA r : r.product_id # id)

\* path.match(/\/storage\/v1\/object\/public\/product-images\/(.+)/)?.[1]:
\* the first place the prefix occurs with something after it; the group is
\* the rest of the path.  <<>> when there is no match.
PrefixAt(pathname, k) ==
    /\ k + Len(PublicPrefix) <= Len(pathname)
    /\ SubSeq(pathname, k, k + Len(PublicPrefix) - 1) = PublicPrefix
MatchFilePath(pathname) ==
    LET hits == { k \in 1..Len(pathname) : PrefixAt(pathname, k) }
    IN  IF hits = {} THEN <<>>
        ELSE LET k == CHOOSE h \in hits : \A g \in hits : h <= g
             IN  SubSeq(pathname, k + Len(PublicPrefix), Len(pathname))

\* The body of `for (const imageUrl of product.image_url)` from index j up to
\* its next await: `new URL(imageUrl)` throws on a malformed string, an URL
\* outside the bucket is skipped, an URL of the bucket issues a removal.
RECURSIVE ScanImages(_, _)
ScanImages(image_url, j) ==
    IF j > Len(image_url)
    THEN [kind |-> "finished", at |-> j, filePath |-> <<>>]
    ELSE IF ~image_url[j].wellFormed
         THEN [kind |-> "throw", at |-> j, filePath |-> <<>>]
    ELSE IF MatchFilePath(image_url[j].pathname) = <<>>
         THEN ScanImages(image_url, j + 1)
    ELSE [kind |-> "remove", at |-> j,
          filePath |-> MatchFilePath(image_url[j].pathname)]

\* A call that has not been invoked.  id: the id argument; attributes and
\* product: the two halves of `const { attributes, ...product } = data`;
\* image_url: product.image_url as fetched by deleteProduct; at: the index of
\* the image whose removal is awaited; row: createdProduct / data; requests:
\* the backend requests the call has issued, in order; errors: for each
\* answered request, whether the answer carried an error.
IdleCall ==
    [op |-> "none", pc |-> "idle", id |-> "", attributes |-> None,
     product |-> [price |-> None, image_url |-> None], image_url |-> None,
     at |-> 0, row |-> None, outcome |-> "pending", result |-> None,
     error |-> "", requests |-> <<>>, errors |-> <<>>]

Request(name, id, key, rows) ==
    [req |-> name, id |-> id, key |-> key, rows |-> rows]
Log(c, msg) == Append(console, [call |-> c, msg |-> msg])

\* return value
Returned(rec, value) ==
    [rec EXCEPT !.pc = "done", !.outcome = "returned", !.result = value]
\* throw new Error(message), or an exception of a callee
Threw(rec, message) ==
    [rec EXCEPT !.pc = "done", !.outcome = "threw", !.error = message]
\* The call receives the answer to the request it awaits.
Got(rec, isError) == [rec EXCEPT !.errors = Append(@, isError)]
\* The call issues its next backend request and awaits the answer.
Await(rec, request) ==
    [rec EXCEPT !.pc = request.req, !.requests = Append(@, request)]

-----------------------------------------------------------------------------
(* Product repository: createProduct *)

\* The id the backend gives the inserted row: one no row has.
FreshId == CHOOSE id \in ProductIds : products[id] = None

\* createProduct up to its first await: the product row insert is issued.
createProduct(c, attributes, product) ==
    /\ call[c].pc = "idle"
    /\ call' = [call EXCEPT ![c] =
                  Await([IdleCall EXCEPT !.op = "create",
                                         !.attributes = attributes,
                                         !.product = product],
                        Request("products.insert", "", <<>>, <<>>))]
    /\ UNCHANGED <<analyticsVars, products, product_attributes, storage,
                   console>>

\* After a successful product insert: `if (attributes && attributes.length > 0)`
\* issues the attribute insert, else the created product is returned.
AfterProductInsert(rec, createdProduct) ==
    IF rec.attributes # None /\ Len(Get(rec.attributes)) > 0
    THEN Await([rec EXCEPT !.row = Some(createdProduct)],
               Request("product_attributes.insert", "", <<>>,
                       WithProductId(Get(rec.attributes), createdProduct.id)))
    ELSE Returned([rec EXCEPT !.row = Some(createdProduct)],
                  Some(createdProduct))

\* The product insert succeeds.
CreateProductInserted(c) ==
    /\ call[c].op = "create" /\ call[c].pc = "products.insert"
    /\ \E id \in ProductIds : products[id] = None
    /\ LET createdProduct == [id |-> FreshId,
                              price |-> Get(call[c].product.price),
                              image_url |-> call[c].product.image_url]
       IN  /\ products' = [products EXCEPT ![FreshId] = Some(createdProduct)]
           /\ call' = [call EXCEPT ![c] =
                         AfterProductInsert(Got(@, FALSE), createdProduct)]
    /\ UNCHANGED <<analyticsVars, product_attributes, storage, console>>

\* The product insert fails: `if (productError)` logs and throws.
CreateProductInsertFailed(c) ==
    /\ call[c].op = "create" /\ call[c].pc = "products.insert"
    /\ console' = Log(c, "createProduct: product insert failed")
    /\ call' = [call EXCEPT ![c] =
                  Threw(Got(@, TRUE), "could not create the product")]
    /\ UNCHANGED <<analyticsVars, products, product_attributes, storage>>

\* The attribute insert succeeds (the owning row must exist: foreign key).
CreateAttributesInserted(c) ==
    /\ call[c].op = "create" /\ call[c].pc = "product_attributes.insert"
    /\ products[Get(call[c].row).id] # None
    /\ product_attributes' =
          product_attributes \o call[c].requests[Len(call[c].requests)].rows
    /\ call' = [call EXCEPT ![c] = Returned(Got(@, FALSE), @.row)]
    /\ UNCHANGED <<analyticsVars, products, storage, console>>

\* As CreateAttributesInsertFailed, but the error is thrown to the caller.
CreateAttributesInsertFailed_Throws(c) ==
    /\ call[c].op = "create" /\ call[c].pc = "product_attributes.insert"
    /\ console' = Log(c, "createProduct: attribute insert failed")
    /\ call' = [call EXCEPT ![c] =
                  Threw(Got(@, TRUE), "could not create the attributes")]
    /\ UNCHANGED <<analyticsVars, products, product_attributes, storage>>

\* The attribute insert fails: `if (attributesError)` logs, nothing else;
\* the function goes on to `return createdProduct`.
CreateAttributesInsertFailed(c) ==
    /\ call[c].op = "create" /\ call[c].pc = "product_attributes.insert"
    /\ console' = Log(c, "createProduct: attribute insert failed")
    /\ call' = [call EXCEPT ![c] = Returned(Got(@, TRUE), @.row)]
    /\ UNCHANGED <<analyticsVars, products, product_attributes, storage>>

-----------------------------------------------------------------------------
(* Product repository: updateProduct *)

\* .update(product): the supplied fields replace the row's.
Patched(row, product) ==
    [row EXCEPT !.price = IF product.price = None THEN @
                          ELSE Get(product.price),
                !.image_url = IF product.image_url = None THEN @
                              ELSE product.image_url]

\* updateProduct up to its first await: the product row update is issued.
updateProduct(c, id, attributes, product) ==
    /\ call[c].pc = "idle"
    /\ call' = [call EXCEPT ![c] =
                  Await([IdleCall EXCEPT !.op = "update", !.id = id,
                                         !.attributes = attributes,
                                         !.product = product],
                        Request("products.update", id, <<>>, <<>>))]
    /\ UNCHANGED <<analyticsVars, products, product_attributes, storage,
                   console>>

\* As AfterProductUpdate, but with createProduct's test
\* `attributes && attributes.length > 0`: an empty list replaces nothing.
AfterProductUpdate_SkipsEmpty(rec, data) ==
    IF rec.attributes # None /\ Len(Get(rec.attributes)) > 0
    THEN Await([rec EXCEPT !.row = Some(data)],
               Request("product_attributes.delete", rec.id, <<>>, <<>>))
    ELSE Returned([rec EXCEPT !.row = Some(data)], Some(data))

\* After a successful row update: `if (attributes !== undefined)` issues the
\* deletion of the product's attribute rows, else data is returned.
AfterProductUpdate(rec, data) ==
    IF rec.attributes # None
    THEN Await([rec EXCEPT !.row = Some(data)],
               Request("product_attributes.delete", rec.id, <<>>, <<>>))
    ELSE Returned([rec EXCEPT !.row = Some(data)], Some(data))

\* The row update succeeds (.single(): exactly one row has the id).
UpdateProductUpdated(c) ==
    /\ call[c].op = "update" /\ call[c].pc = "products.update"
    /\ products[call[c].id] # None
    /\ LET data == Patched(Get(products[call[c].id]), call[c].product)
       IN  /\ products' = [products EXCEPT ![call[c].id] = Some(data)]
           /\ call' = [call EXCEPT ![c] =
                         AfterProductUpdate(Got(@, FALSE), data)]
    /\ UNCHANGED <<analyticsVars, product_attributes, storage, console>>

\* As UpdateProductFailed, but without the throw: the attributes are
\* replaced all the same.
UpdateProductFailed_GoesOn(c) ==
    /\ call[c].op = "update" /\ call[c].pc = "products.update"
    /\ console' = Log(c, "updateProduct: product update failed")
    /\ call' = [call EXCEPT ![c] =
                  IF @.attributes # None
                  THEN Await(Got(@, TRUE),
                             Request("product_attributes.delete", @.id,
                                     <<>>, <<>>))
                  ELSE Returned(Got(@, TRUE), None)]
    /\ UNCHANGED <<analyticsVars, products, product_attributes, storage>>

\* The row update fails: `if (error)` logs and throws.
UpdateProductFailed(c) ==
    /\ call[c].op = "update" /\ call[c].pc = "products.update"
    /\ console' = Log(c, "updateProduct: product update failed")
    /\ call' = [call EXCEPT ![c] =
                  Threw(Got(@, TRUE), "could not update the product")]
    /\ UNCHANGED <<analyticsVars, products, product_attributes, storage>>

\* After the awaited attribute deletion, whatever it answered:
\* `if (attributes.length > 0)` issues the insert, else data is returned.
AfterAttributesDelete(rec) ==
    IF Len(Get(rec.attributes)) > 0
    THEN Await(rec, Request("product_attributes.insert", "", <<>>,
                            WithProductId(Get(rec.attributes), rec.id)))
    ELSE Returned(rec, rec.row)

\* As UpdateAttributesDeleted, but the filter matches no row (the row id
\* compared with the product id): the deletion succeeds and removes nothing.
UpdateAttributesDeleted_KeepsRows(c) ==
    /\ call[c].op = "update" /\ call[c].pc = "product_attributes.delete"
    /\ call' = [call EXCEPT ![c] = AfterAttributesDelete(Got(@, FALSE))]
    /\ UNCHANGED <<analyticsVars, products, product_attributes, storage,
                   console>>

\* The attribute deletion succeeds.
UpdateAttributesDeleted(c) ==
    /\ call[c].op = "update" /\ call[c].pc = "product_attributes.delete"
    /\ product_attributes' = AttrsNotOf(product_attributes, call[c].id)
    /\ call' = [call EXCEPT ![c] = AfterAttributesDelete(Got(@, FALSE))]
    /\ UNCHANGED <<analyticsVars, products, storage, console>>

\* The attribute deletion fails: the awaited answer is dropped unread.
UpdateAttributesDeleteFailed(c) ==
    /\ call[c].op = "update" /\ call[c].pc = "product_attributes.delete"
    /\ call' = [call EXCEPT ![c] = AfterAttributesDelete(Got(@, TRUE))]
    /\ UNCHANGED <<analyticsVars, products, product_attributes, storage,
                   console>>

\* The attribute insert succeeds (the owning row must exist: foreign key).
UpdateAttributesInserted(c) ==
    /\ call[c].op = "update" /\ call[c].pc = "product_attributes.insert"
    /\ products[call[c].id] # None
    /\ product_attributes' =
          product_attributes \o call[c].requests[Len(call[c].requests)].rows
    /\ call' = [call EXCEPT ![c] = Returned(Got(@, FALSE), @.row)]
    /\ UNCHANGED <<analyticsVars, products, storage, console>>

\* The attribute insert fails: `if (attributesError)` logs; data is returned.
UpdateAttributesInsertFailed(c) ==
    /\ call[c].op = "update" /\ call[c].pc = "product_attributes.insert"
    /\ console' = Log(c, "updateProduct: attribute insert failed")
    /\ call' = [call EXCEPT ![c] = Returned(Got(@, TRUE), @.row)]
    /\ UNCHANGED <<analyticsVars, products, product_attributes, storage>>

-----------------------------------------------------------------------------
(* Product repository: deleteProduct *)

\* deleteProduct up to its first await: the image_url fetch is issued.
deleteProduct(c, id) ==
    /\ call[c].pc = "idle"
    /\ call' = [call EXCEPT ![c] =
                  Await([IdleCall EXCEPT !.op = "delete", !.id = id],
                        Request("products.select", id, <<>>, <<>>))]
    /\ UNCHANGED <<analyticsVars, products, product_attributes, storage,
                   console>>

\* The image loop from index j to the next await: the removal of the next
\* image of the bucket, or, the list exhausted (or absent, or empty), the row
\* deletion.  A malformed URL makes `new URL` throw out of the function.
ContinueImages(rec, j) ==
    LET list == IF rec.image_url = None THEN <<>> ELSE Get(rec.image_url)
        step == ScanImages(list, j)
        here == [rec EXCEPT !.at = step.at]
    IN  CASE step.kind = "throw" -> Threw(here, "TypeError: Invalid URL")
          [] step.kind = "remove" ->
                Await(here, Request("storage.remove", "", step.filePath, <<>>))
          [] step.kind = "finished" ->
                Await(here, Request("products.delete", rec.id, <<>>, <<>>))

\* The fetch succeeds (.single(): exactly one row has the id).
DeleteFetched(c) ==
    /\ call[c].op = "delete" /\ call[c].pc = "products.select"
    /\ products[call[c].id] # None
    /\ call' = [call EXCEPT ![c] =
                  ContinueImages(
                      [Got(@, FALSE) EXCEPT
                          !.image_url = Get(products[call[c].id]).image_url],
                      1)]
    /\ UNCHANGED <<analyticsVars, products, product_attributes, storage,
                   console>>

\* As DeleteFetchFailed, but the error is only logged and the row deleted.
DeleteFetchFailed_GoesOn(c) ==
    /\ call[c].op = "delete" /\ call[c].pc = "products.select"
    /\ console' = Log(c, "deleteProduct: fetch failed")
    /\ call' = [call EXCEPT ![c] = ContinueImages(Got(@, TRUE), 1)]
    /\ UNCHANGED <<analyticsVars, products, product_attributes, storage>>

\* The fetch fails: `if (fetchError)` logs and throws.
DeleteFetchFailed(c) ==
    /\ call[c].op = "delete" /\ call[c].pc = "products.select"
    /\ console' = Log(c, "deleteProduct: fetch failed")
    /\ call' = [call EXCEPT ![c] =
                  Threw(Got(@, TRUE), "could not fetch the product")]
    /\ UNCHANGED <<analyticsVars, products, product_attributes, storage>>

\* The awaited removal succeeds: the object is gone from the bucket.
DeleteImageRemoved(c) ==
    /\ call[c].op = "delete" /\ call[c].pc = "storage.remove"
    /\ storage' = storage \ {call[c].requests[Len(call[c].requests)].key}
    /\ call' = [call EXCEPT ![c] = ContinueImages(Got(@, FALSE), @.at + 1)]
    /\ UNCHANGED <<analyticsVars, products, product_attributes, console>>

\* The awaited removal fails: `if (storageError)` logs; the loop goes on.
DeleteImageRemoveFailed(c) ==
    /\ call[c].op = "delete" /\ call[c].pc = "storage.remove"
    /\ console' = Log(c, "deleteProduct: image removal failed")
    /\ call' = [call EXCEPT ![c] = ContinueImages(Got(@, TRUE), @.at + 1)]
    /\ UNCHANGED <<analyticsVars, products, product_attributes, storage>>

\* The row deletion succeeds; the backend's ON DELETE CASCADE removes the
\* product's attribute rows with it.
DeleteRowDeleted(c) ==
    /\ call[c].op = "delete" /\ call[c].pc = "products.delete"
    /\ products' = [products EXCEPT ![call[c].id] = None]
    /\ product_attributes' = AttrsNotOf(product_attributes, call[c].id)
    /\ call' = [call EXCEPT ![c] = Returned(Got(@, FALSE), None)]
    /\ UNCHANGED <<analyticsVars, storage, console>>

\* As DeleteRowDeleteFailed, but the error is swallowed like an image's.
DeleteRowDeleteFailed_Swallowed(c) ==
    /\ call[c].op = "delete" /\ call[c].pc = "products.delete"
    /\ console' = Log(c, "deleteProduct: row deletion failed")
    /\ call' = [call EXCEPT ![c] = Returned(Got(@, TRUE), None)]
    /\ UNCHANGED <<analyticsVars, products, product_attributes, storage>>

\* The row deletion fails: `if (deleteError)` throws.
DeleteRowDeleteFailed(c) ==
    /\ call[c].op = "delete" /\ call[c].pc = "products.delete"
    /\ call' = [call EXCEPT ![c] =
                  Threw(Got(@, TRUE), "could not delete the product")]
    /\ UNCHANGED <<analyticsVars, products, product_attributes, storage,
                   console>>

-----------------------------------------------------------------------------
(* Product repository: the stored state and the calls made on it *)

\* The objects the image list of a row names in the bucket.
KeysOf(image_url) ==
    IF image_url = None THEN {}
    ELSE { MatchFilePath(Get(image_url)[k].pathname) :
             k \in { n \in 1..Len(Get(image_url)) : Get(image_url)[n].wellFormed } }
         \ {<<>>}

\* Product.image_url?: string[]
OptImageLists == {None} \cup { Some(l) : l \in ImageLists }
\* Product.attributes?: ProductAttribute[]
OptAttrLists == {None} \cup { Some(l) : l \in AttrLists }
\* Partial<Product> without its attributes
Partials == [price : {None, Some(20)}, image_url : {None}]
\* Product without its attributes
NewProducts == [price : {Some(15)}, image_url : {None, Some(<<UrlOf(KeyC)>>)}]

\* Product p1 is stored, with any image list, with or without attribute
\* rows; its images are in the bucket, next to an object of no product.
InitRepo ==
    /\ \E image_url \in OptImageLists :
          /\ products = [id \in ProductIds |->
                           IF id = "p1"
                           THEN Some([id |-> "p1", price |-> 10,
                                      image_url |-> image_url])
                           ELSE None]
          /\ storage = KeysOf(image_url) \cup {KeyOther}
    /\ product_attributes \in {<<>>, StoredAttrs}
    /\ console = <<>>
    /\ call = [c \in Calls |-> IdleCall]

-----------------------------------------------------------------------------
(* Analytics: fetchAnalyticsData *)

Reads == {"getOrderStats", "getOrders", "getProducts", "getUserStats"}

\* useEffect on mount, fetchAnalyticsData up to its await: setIsLoading(true)
\* and the four reads are issued and handed to Promise.all.
Mount ==
    /\ pcA = "unmounted"
    /\ isLoading' = TRUE
    /\ reads' = [r \in Reads |-> "pending"]
    /\ pcA' = "awaiting"
    /\ UNCHANGED <<repoVars, now, utcDayShift, backend, analyticsData, consoleA>>

\* A read's promise fulfils.
ReadFulfilled(r) ==
    /\ reads[r] = "pending"
    /\ reads' = [reads EXCEPT ![r] = "fulfilled"]
    /\ UNCHANGED <<repoVars, now, utcDayShift, backend, pcA, analyticsData,
                   isLoading, consoleA>>

\* A read's promise rejects.
ReadRejected(r) ==
    /\ reads[r] = "pending"
    /\ reads' = [reads EXCEPT ![r] = "rejected"]
    /\ UNCHANGED <<repoVars, now, utcDayShift, backend, pcA, analyticsData,
                   isLoading, consoleA>>

\* As JoinFulfilled, but joined like Promise.allSettled: once no read is
\* pending, whatever each answered.
JoinFulfilled_AllSettled ==
    \A r \in Reads : reads[r] \in {"fulfilled", "rejected"}

\* Promise.all fulfils once all four reads have.
JoinFulfilled == \A r \in Reads : reads[r] = "fulfilled"
\* Promise.all rejects once one read has.
JoinRejected == \E r \in Reads : reads[r] = "rejected"

\* The try block after the await: the derivation and setAnalyticsData, then
\* finally setIsLoading(false).
Derive ==
    /\ pcA = "awaiting"
    /\ JoinFulfilled
    /\ analyticsData' = Summary(backend.orderStats, backend.orders,
                                backend.products, backend.userStats,
                                now, utcDayShift)
    /\ isLoading' = FALSE
    /\ pcA' = "done"
    /\ UNCHANGED <<repoVars, now, utcDayShift, backend, reads, consoleA>>

\* The catch block: console.error, then finally setIsLoading(false).
Catch ==
    /\ pcA = "awaiting"
    /\ JoinRejected
    /\ consoleA' = Append(consoleA, "Error fetching analytics data")
    /\ isLoading' = FALSE
    /\ pcA' = "done"
    /\ UNCHANGED <<repoVars, now, utcDayShift, backend, reads, analyticsData>>

-----------------------------------------------------------------------------
(* Analytics: what the backend holds and when the component runs *)

Item(name_ar, name_en, price, quantity) ==
    [products |-> Some([name_ar |-> name_ar, name_en |-> name_en]),
     price |-> price, quantity |-> quantity]
\* An order item whose joined product is null.
OrphanItem(price, quantity) ==
    [products |-> None, price |-> price, quantity |-> quantity]
Ym(y, m) == Some([y |-> y, m |-> m])

OrderA == [total_price |-> 40, created_at |-> Ym(2024, 3),
           order_items |-> Some(<<Item("Shirt", "", 10, 2),
                                  Item("Shoes", "Shoes-en", 20, 1)>>)]
OrderB == [total_price |-> 35, created_at |-> Ym(2024, 2),
           order_items |-> Some(<<Item("Shoes", "Shoes-en", 20, 1),
                                  Item("Hat", "", 5, 3)>>)]
OrderC == [total_price |-> 18, created_at |-> Ym(2023, 12),
           order_items |-> Some(<<Item("", "Bag", 4, 1),
                                  OrphanItem(8, 1),
                                  Item("Belt", "", 3, 2)>>)]
OrderD == [total_price |-> 9, created_at |-> None, order_items |-> None]
OrderE == [total_price |-> 15, created_at |-> Ym(2024, 3),
           order_items |-> Some(<<Item("Scarf", "", 6, 1),
                                  Item("Socks", "", 1, 2),
                                  Item("", "", 7, 1)>>)]
OrderPool == {OrderA, OrderB, OrderC, OrderD, OrderE}
MonthOrderPool == {OrderA, OrderB, OrderD}

Years == {2023, 2024}
Dates == { date \in [y : Years, m : 0..11, d : 1..31] : IsDate(date) }

\* The component as constructed: default data, loading, nothing fetched.
Constructed ==
    /\ reads = [r \in Reads |-> "unissued"]
    /\ pcA = "unmounted"
    /\ analyticsData = DefaultData
    /\ isLoading = TRUE
    /\ consoleA = <<>>

\* The component at its await with all four reads fulfilled.
AllFetched ==
    /\ reads = [r \in Reads |-> "fulfilled"]
    /\ pcA = "awaiting"
    /\ analyticsData = DefaultData
    /\ isLoading = TRUE
    /\ consoleA = <<>>

\* A fixed day, a fixed empty backend.
QuietBackend ==
    /\ now = [y |-> 2024, m |-> 2, d |-> 15]
    /\ utcDayShift = 0
    /\ backend = [orderStats |-> 0, orders |-> <<>>, products |-> 0,
                  userStats |-> 0]

\* No repository call is made: p1 is stored, no call is invoked.
RepoIdle ==
    /\ products = [id \in ProductIds |->
                     IF id = "p1"
                     THEN Some([id |-> "p1", price |-> 10, image_url |-> None])
                     ELSE None]
    /\ product_attributes = <<>>
    /\ storage = {KeyOther}
    /\ console = <<>>
    /\ call = [c \in Calls |-> IdleCall]

AnalyticsUnmounted == QuietBackend /\ Constructed

\* The page is mounted on some day over some backend content; each read
\* fulfils or rejects, in any order.
InitAnalytics ==
    /\ RepoIdle
    /\ Constructed
    /\ now = [y |-> 2024, m |-> 2, d |-> 15]
    /\ utcDayShift = 0
    /\ backend \in [orderStats : {0, 7},
                    orders : SeqsUpTo({OrderA, OrderD}, 1),
                    products : {4},
                    userStats : {0, 3}]
NextAnalytics ==
    \/ Mount
    \/ \E r \in Reads : ReadFulfilled(r)
    \/ \E r \in Reads : ReadRejected(r)
    \/ Derive
    \/ Catch
SpecAnalytics == InitAnalytics /\ [][NextAnalytics]_vars

\* The derivation alone, from the await with all four reads fulfilled: over
\* every day of two years (one a leap year) with a short order page, and on
\* one day over every order page of the pool.
InitMonths ==
    /\ now \in Dates
    /\ utcDayShift \in {-1, 0, 1}
    /\ backend \in [orderStats : {2},
                    orders : SeqsUpTo(MonthOrderPool, MaxMonthOrders),
                    products : {4},
                    userStats : {2}]
InitOrders ==
    /\ now = [y |-> 2024, m |-> 2, d |-> 15]
    /\ utcDayShift = 0
    /\ backend \in [orderStats : {0, 7},
                    orders : SeqsUpTo(OrderPool, MaxOrders),
                    products : {4},
                    userStats : {0, 2, 3}]
InitDerive == RepoIdle /\ AllFetched /\ (InitMonths \/ InitOrders)
SpecDerive == InitDerive /\ [][Derive]_vars

\* A form of the dashboard makes one repository call and awaits it.
Caller == "c1"

Init == InitRepo /\ AnalyticsUnmounted

Next ==
    \/ \E attributes \in OptAttrLists, product \in NewProducts :
          createProduct(Caller, attributes, product)
    \/ \E id \in ProductIds, attributes \in OptAttrLists, product \in Partials :
          updateProduct(Caller, id, attributes, product)
    \/ \E id \in ProductIds : deleteProduct(Caller, id)
    \/ CreateProductInserted(Caller)
    \/ CreateProductInsertFailed(Caller)
    \/ CreateAttributesInserted(Caller)
    \/ CreateAttributesInsertFailed(Caller)
    \/ UpdateProductUpdated(Caller)
    \/ UpdateProductFailed(Caller)
    \/ UpdateAttributesDeleted(Caller)
    \/ UpdateAttributesDeleteFailed(Caller)
    \/ UpdateAttributesInserted(Caller)
    \/ UpdateAttributesInsertFailed(Caller)
    \/ DeleteFetched(Caller)
    \/ DeleteFetchFailed(Caller)
    \/ DeleteImageRemoved(Caller)
    \/ DeleteImageRemoveFailed(Caller)
    \/ DeleteRowDeleted(Caller)
    \/ DeleteRowDeleteFailed(Caller)

Spec == Init /\ [][Next]_vars

-----------------------------------------------------------------------------
(* Product repository: properties *)

ReqNames(rec) == [k \in 1..Len(rec.requests) |-> rec.requests[k].req]
HasLog(c, msg) ==
    \E k \in 1..Len(console) : console[k] = [call |-> c, msg |-> msg]
AllAnswered(rec) == Len(rec.errors) = Len(rec.requests)

\* The object keys of the images of a list that lie in the bucket, in list
\* order.
RECURSIVE ImageKeys(_)
ImageKeys(list) ==
    IF list = <<>> THEN <<>>
    ELSE LET key == IF Head(list).wellFormed
                    THEN MatchFilePath(Head(list).pathname) ELSE <<>>
         IN  (IF key = <<>> THEN <<>> ELSE <<key>>) \o ImageKeys(Tail(list))
FetchedList(rec) == IF rec.image_url = None THEN <<>> ELSE Get(rec.image_url)
\* The keys whose removal the call has requested, in order.
RemovalKeys(rec) ==
    LET removals == SelectSeq(rec.requests, LAMBDA r : r.req = "storage.remove")
    IN  [k \in 1..Len(removals) |-> removals[k].key]

\* C1: when createProduct's product insert succeeds and its attribute insert
\* fails, the call returns the created row without an error, the row is still
\* in the products table, no further request (no rollback) was issued, and
\* the failure is on the console.
CreateSurvivesAttributeFailure ==
    \A c \in Calls :
        (call[c].op = "create" /\ call[c].errors = <<FALSE, TRUE>>) =>
            /\ call[c].outcome = "returned"
            /\ call[c].row # None
            /\ call[c].result = call[c].row
            /\ products[Get(call[c].row).id] = call[c].row
            /\ ReqNames(call[c]) = <<"products.insert",
                                     "product_attributes.insert">>
            /\ HasLog(c, "createProduct: attribute insert failed")

CreateSurvivesAttributeFailureWitness ==
    \E c \in Calls :
        /\ call[c].op = "create" /\ call[c].errors = <<FALSE, TRUE>>
        /\ call[c].outcome = "returned"
        /\ AttrsOf(product_attributes, Get(call[c].row).id) = <<>>

\* C2: when deleteProduct's fetch of image_url fails, the call throws, it has
\* issued no request but the fetch (no removal, no row deletion), and the
\* failing step leaves the products table, the attribute table and the bucket
\* as they were.
DeleteFetchFailureState ==
    \A c \in Calls :
        (call[c].op = "delete" /\ Len(call[c].errors) >= 1 /\ call[c].errors[1])
            => /\ call[c].outcome = "threw"
               /\ ReqNames(call[c]) = <<"products.select">>
DeleteFetchFailureStep ==
    \A c \in Calls :
        (call[c].pc = "products.select" /\ call'[c].errors = <<TRUE>>)
            => /\ products' = products
               /\ storage' = storage
               /\ product_attributes' = product_attributes
DeleteFetchFailureAborts ==
    []DeleteFetchFailureState /\ [][DeleteFetchFailureStep]_vars

DeleteFetchFailureWitness ==
    \E c \in Calls :
        /\ call[c].op = "delete" /\ call[c].errors = <<TRUE>>
        /\ call[c].outcome = "threw"
        /\ products[call[c].id] # None
        /\ Get(products[call[c].id]).image_url # None
        /\ KeysOf(Get(products[call[c].id]).image_url) # {}

\* C3: when deleteProduct's fetch succeeded and the call has ended, whatever
\* the image list and whichever removals failed, a removal was requested for
\* every image of the bucket in list order, every image whose removal did not
\* fail is gone from the bucket, the row deletion was requested after them,
\* and no image made the call throw.
DeleteSurvivesEveryImage ==
    \A c \in Calls :
        (call[c].op = "delete" /\ call[c].pc = "done"
            /\ ~call[c].errors[1]) =>
            LET keys == ImageKeys(FetchedList(call[c]))
            IN  /\ RemovalKeys(call[c]) = keys
                /\ \A k \in 1..Len(keys) :
                      ~call[c].errors[k + 1] => keys[k] \notin storage
                /\ call[c].requests[Len(call[c].requests)].req = "products.delete"
                /\ call[c].outcome = "threw" =>
                      call[c].errors[Len(call[c].errors)]

\* C7: an updateProduct call that ended with no backend error: with the
\* attributes field present the deletion of the product's rows was requested
\* before the insert (the insert only for a non-empty list) and the product's
\* rows are exactly the supplied ones under the product's id; with the field
\* absent no attribute request was issued and no step of the call changes the
\* product's attribute rows.
UpdateReplacesState ==
    \A c \in Calls :
        (call[c].op = "update" /\ call[c].pc = "done"
            /\ \A k \in 1..Len(call[c].errors) : ~call[c].errors[k]) =>
            IF call[c].attributes # None
            THEN /\ ReqNames(call[c]) =
                       IF Len(Get(call[c].attributes)) > 0
                       THEN <<"products.update", "product_attributes.delete",
                              "product_attributes.insert">>
                       ELSE <<"products.update", "product_attributes.delete">>
                 /\ AttrsOf(product_attributes, call[c].id) =
                       WithProductId(Get(call[c].attributes), call[c].id)
            ELSE ReqNames(call[c]) = <<"products.update">>
UpdateReplacesStep ==
    \A c \in Calls :
        (call[c].op = "update" /\ call[c].attributes = None) =>
            AttrsOf(product_attributes', call[c].id) =
                AttrsOf(product_attributes, call[c].id)
UpdateReplacesAttributes ==
    []UpdateReplacesState /\ [][UpdateReplacesStep]_vars

UpdateReplacesAttributesWitness ==
    \E c \in Calls :
        /\ call[c].op = "update" /\ call[c].pc = "done"
        /\ call[c].errors = <<FALSE, FALSE, FALSE>>
        /\ Len(Get(call[c].attributes)) = 2
        /\ product_attributes = WithProductId(Get(call[c].attributes), "p1")

\* C8: when updateProduct's row update succeeded and its attribute deletion
\* or its attribute insert failed, each such failure is on the console and
\* the call returns the updated row.
UpdateSoftFailureMessage(name) ==
    IF name = "product_attributes.delete"
    THEN "updateProduct: attribute delete failed"
    ELSE "updateProduct: attribute insert failed"
UpdateLogsAttributeFailures ==
    \A c \in Calls :
        (call[c].op = "update" /\ call[c].pc = "done"
            /\ Len(call[c].errors) >= 2 /\ ~call[c].errors[1]) =>
            /\ call[c].outcome = "returned"
            /\ call[c].result = call[c].row
            /\ \A k \in 2..Len(call[c].errors) :
                  call[c].errors[k] =>
                      HasLog(c, UpdateSoftFailureMessage(call[c].requests[k].req))

\* C9: when the product insert of createProduct or the row update of
\* updateProduct fails, the call throws having issued that one request only,
\* and the failing step changes no table.
PrimaryFailureState ==
    \A c \in Calls :
        (call[c].op \in {"create", "update"}
            /\ Len(call[c].errors) >= 1 /\ call[c].errors[1])
            => /\ call[c].outcome = "threw"
               /\ Len(call[c].requests) = 1
PrimaryFailureStep ==
    \A c \in Calls :
        (call[c].op \in {"create", "update"}
            /\ call[c].errors = <<>> /\ call'[c].errors = <<TRUE>>)
            => /\ product_attributes' = product_attributes
               /\ products' = products
PrimaryFailureAborts ==
    []PrimaryFailureState /\ [][PrimaryFailureStep]_vars

PrimaryFailureWitness ==
    \E c \in Calls :
        /\ call[c].op = "update" /\ call[c].errors = <<TRUE>>
        /\ call[c].outcome = "threw"
        /\ call[c].attributes # None /\ Get(call[c].attributes) # <<>>
        /\ products[call[c].id] # None
        /\ product_attributes = StoredAttrs

\* C10: in a deleteProduct call the row deletion is requested at most once,
\* as the last request, after a removal has been requested and answered for
\* every image of the bucket; if it fails the call throws; the call returns
\* only with the row deletion requested, once, and answered without error.
DeleteRowDeletionLast ==
    \A c \in Calls :
        call[c].op = "delete" =>
            LET n == Len(call[c].requests)
                dels == { k \in 1..n : call[c].requests[k].req = "products.delete" }
            IN  /\ Cardinality(dels) <= 1
                /\ \A k \in dels :
                      /\ k = n
                      /\ Len(call[c].errors) >= n - 1
                      /\ RemovalKeys(call[c]) = ImageKeys(FetchedList(call[c]))
                /\ (dels # {} /\ AllAnswered(call[c]) /\ call[c].errors[n])
                      => call[c].outcome = "threw"
                /\ call[c].outcome = "returned"
                      => /\ Cardinality(dels) = 1
                         /\ AllAnswered(call[c])
                         /\ ~call[c].errors[n]

DeleteRowDeletionLastWitness ==
    \E c \in Calls :
        /\ call[c].op = "delete" /\ call[c].outcome = "threw"
        /\ Len(call[c].requests) = 5
        /\ call[c].errors = <<FALSE, TRUE, FALSE, TRUE, TRUE>>

-----------------------------------------------------------------------------
(* Analytics: properties *)

\* C4: the four reads are joined all-or-nothing: once any read has rejected,
\* in whatever order the others settle, the AnalyticsData state is the one it
\* was before the run (the zeroed default) and no step changes it; the run
\* ends having logged the error and cleared the loading flag; and the state
\* is only ever the default or the summary of four fulfilled reads.
AllOrNothingState ==
    /\ JoinRejected =>
          /\ analyticsData = DefaultData
          /\ pcA = "done" =>
                (consoleA = <<"Error fetching analytics data">> /\ ~isLoading)
    /\ analyticsData # DefaultData =>
          /\ JoinFulfilled
          /\ analyticsData = Summary(backend.orderStats, backend.orders,
                                     backend.products, backend.userStats,
                                     now, utcDayShift)
AllOrNothingStep == JoinRejected' => analyticsData' = analyticsData
AnalyticsAllOrNothing == []AllOrNothingState /\ [][AllOrNothingStep]_vars

AnalyticsAllOrNothingWitness ==
    /\ pcA = "done"
    /\ reads["getUserStats"] = "rejected"
    /\ \A r \in Reads \ {"getUserStats"} : reads[r] = "fulfilled"
    /\ backend.orders # <<>>
    /\ analyticsData = DefaultData
    /\ consoleA # <<>>

\* The calendar month i months before the month ym (year, month 1..12).
MonthsBefore(ym, i) ==
    LET n == ym.y * 12 + (ym.m - 1) - i
    IN  [y |-> n \div 12, m |-> (n % 12) + 1]
\* The orders whose created_at begins with the "YYYY-MM" of the month ym.
OrdersOfMonth(orders, ym) ==
    SelectSeq(orders, LAMBDA o : o.created_at # None /\ Get(o.created_at) = ym)

\* C5: whatever the day and the order page, salesByMonth has 6 entries, the
\* entry k being the bucket of the calendar month 6 - k months before the
\* current month (so: consecutive, distinct, oldest first, the current month
\* last), with the revenue and the count of the orders whose created_at
\* begins with that month.
MonthlySeriesTrailingSix ==
    pcA = "done" =>
        LET series == analyticsData.salesByMonth
            current == [y |-> now.y, m |-> now.m + 1]
        IN  /\ Len(series) = 6
            /\ \A k \in 1..6 :
                  LET ym == MonthsBefore(current, 6 - k)
                      monthOrders == OrdersOfMonth(backend.orders, ym)
                  IN  /\ series[k].month = ym
                      /\ series[k].revenue = SumTotals(monthOrders)
                      /\ series[k].orders = Len(monthOrders)

\* The display name the claim resolves: name_ar, else name_en, else the
\* placeholder.
DisplayName(item) ==
    CASE item.products = None -> "Unknown Product"
      [] item.products # None /\ Get(item.products).name_ar # "" ->
            Get(item.products).name_ar
      [] item.products # None /\ Get(item.products).name_ar = ""
            /\ Get(item.products).name_en # "" -> Get(item.products).name_en
      [] OTHER -> "Unknown Product"
RECURSIVE SalesOf(_, _)
SalesOf(items, name) ==
    IF items = <<>> THEN 0
    ELSE (IF DisplayName(Head(items)) = name
          THEN Head(items).price * Head(items).quantity ELSE 0)
         + SalesOf(Tail(items), name)
RECURSIVE QuantityOf(_, _)
QuantityOf(items, name) ==
    IF items = <<>> THEN 0
    ELSE (IF DisplayName(Head(items)) = name THEN Head(items).quantity ELSE 0)
         + QuantityOf(Tail(items), name)

\* C6: whatever the order page, topProducts has at most 5 entries, in
\* descending order of sales, no two with the same name, each a display name
\* of some order item with the sum of price x quantity and the sum of the
\* quantity of all order items of that display name.
TopProductsRanked ==
    pcA = "done" =>
        LET top == analyticsData.topProducts
            items == AllItems(backend.orders)
        IN  /\ Len(top) <= 5
            /\ \A k \in 1..Len(top) - 1 : top[k].sales >= top[k + 1].sales
            /\ \A j, k \in 1..Len(top) : top[j].name = top[k].name => j = k
            /\ \A k \in 1..Len(top) :
                  /\ \E n \in 1..Len(items) : DisplayName(items[n]) = top[k].name
                  /\ top[k].sales = SalesOf(items, top[k].name)
                  /\ top[k].quantity = QuantityOf(items, top[k].name)

TopProductsRankedWitness ==
    /\ pcA = "done"
    /\ Len(analyticsData.topProducts) = 5
    /\ Cardinality({ DisplayName(AllItems(backend.orders)[n]) :
                       n \in 1..Len(AllItems(backend.orders)) }) > 5
    /\ \E k \in 1..5 :
          /\ analyticsData.topProducts[k].name = "Shoes"
          /\ analyticsData.topProducts[k].sales = 40
    /\ \E k \in 1..5 : analyticsData.topProducts[k].name = "Unknown Product"

\* The sum of total_price over the first n orders of a page.
RECURSIVE TotalPrice(_, _)
TotalPrice(orders, n) ==
    IF n = 0 THEN 0 ELSE TotalPrice(orders, n - 1) + orders[n].total_price

\* C11: whatever the fetched order page, totalRevenue is the sum of its
\* total_price, and averageOrderValue is that sum divided by the number of
\* fetched orders when there is one, 0 when there is none (never a division
\* by zero), while totalOrders is the aggregate order-stat total, which the
\* average does not use.
AverageOrderValueExact ==
    pcA = "done" =>
        LET n == Len(backend.orders)
            total == TotalPrice(backend.orders, n)
            average == analyticsData.averageOrderValue
        IN  /\ analyticsData.totalRevenue = total
            /\ analyticsData.totalOrders = backend.orderStats
            /\ average.den # 0
            /\ IF n > 0 THEN average.num * n = total * average.den
               ELSE average.num = 0

AverageOrderValueExactWitness ==
    /\ pcA = "done"
    /\ Len(backend.orders) = 3
    /\ backend.orderStats = 7
    /\ analyticsData.totalRevenue = 64
    /\ analyticsData.averageOrderValue = Ratio(64, 3)
    /\ analyticsData.totalOrders = 7

\* C12: whatever the user-stat total and the fetched order page,
\* conversionRate is 0 when the user-stat total is 0 and otherwise the number
\* of fetched orders divided by the user-stat total, times 100; the
\* aggregate order-stat total plays no part.
ConversionRateExact ==
    pcA = "done" =>
        LET n == Len(backend.orders)
            users == backend.userStats
            rate == analyticsData.conversionRate
        IN  /\ rate.den # 0
            /\ IF users = 0 THEN rate.num = 0
               ELSE rate.num * users = n * 100 * rate.den

ConversionRateExactWitness ==
    /\ pcA = "done"
    /\ backend.userStats = 3
    /\ Len(backend.orders) = 2
    /\ backend.orderStats = 7
    /\ analyticsData.conversionRate = Ratio(200, 3)

-----------------------------------------------------------------------------
(* Product repository: attribute replacement *)

\* C13: after a single updateProduct call with an attributes field has
\* returned, whichever of the attribute deletion and the attribute insert
\* failed, the product's attribute rows are the rows stored before the call
\* (none, or StoredAttrs: the call is the only writer), the supplied rows
\* under the product's id, or none: never old rows next to new ones.
UpdateNeverMixesAttributes ==
    \A c \in Calls :
        (call[c].op = "update" /\ call[c].outcome = "returned"
            /\ call[c].attributes # None) =>
            LET rows == AttrsOf(product_attributes, call[c].id)
            IN  \/ rows = <<>>
                \/ rows = WithProductId(Get(call[c].attributes), call[c].id)
                \/ rows = AttrsOf(StoredAttrs, call[c].id)

\* Two forms update the same product at once: both calls are updateProduct
\* on p1, each with its own attributes field, and the backend answers their
\* requests in any order, each with success or error.
InitConcurrent ==
    /\ products = [id \in ProductIds |->
                     IF id = "p1"
                     THEN Some([id |-> "p1", price |-> 10, image_url |-> None])
                     ELSE None]
    /\ product_attributes = StoredAttrs
    /\ storage = {KeyOther}
    /\ console = <<>>
    /\ call = [c \in Calls |-> IdleCall]
    /\ AnalyticsUnmounted
NextConcurrent ==
    \E c \in Calls :
        \/ \E attributes \in OptAttrLists, product \in Partials :
              updateProduct(c, "p1", attributes, product)
        \/ UpdateProductUpdated(c)
        \/ UpdateProductFailed(c)
        \/ UpdateAttributesDeleted(c)
        \/ UpdateAttributesDeleteFailed(c)
        \/ UpdateAttributesInserted(c)
        \/ UpdateAttributesInsertFailed(c)
SpecConcurrent == InitConcurrent /\ [][NextConcurrent]_vars

\* Both calls have returned, each had an attributes field, and every backend
\* request of both succeeded.
BothUpdatesSucceeded ==
    \A c \in Calls :
        /\ call[c].op = "update" /\ call[c].outcome = "returned"
        /\ call[c].attributes # None
        /\ \A k \in 1..Len(call[c].errors) : ~call[c].errors[k]
SuppliedRows(c) == WithProductId(Get(call[c].attributes), call[c].id)

\* C14 as claimed: once two updateProduct calls on the same product, with
\* attribute lists A and B, have returned with every request succeeded, the
\* product's attribute rows are exactly A or exactly B.
ConcurrentUpdatesOneWins ==
    BothUpdatesSucceeded =>
        \E c \in Calls :
            AttrsOf(product_attributes, "p1") = SuppliedRows(c)

\* C14 as amended: ... the product's attribute rows are exactly A, exactly
\* B, or the rows of one followed by the rows of the other (both deletions
\* answered before both inserts); no row stored before the calls remains.
ConcurrentUpdatesLeaveSuppliedRows ==
    BothUpdatesSucceeded =>
        \E c, d \in Calls :
            \/ AttrsOf(product_attributes, "p1") = SuppliedRows(c)
            \/ /\ c # d
               /\ AttrsOf(product_attributes, "p1") =
                     SuppliedRows(c) \o SuppliedRows(d)

ConcurrentUpdatesWitness ==
    /\ BothUpdatesSucceeded
    /\ SuppliedRows("c1") # <<>>
    /\ SuppliedRows("c2") # <<>>
    /\ SuppliedRows("c1") # SuppliedRows("c2")
    /\ product_attributes = SuppliedRows("c2") \o SuppliedRows("c1")

=============================================================================
